---- MODULE Spec2Model ----
(***************************************************************************)
(* Model of the LinkedIn content generator: the two FastAPI endpoints of   *)
(* app.py (generate-comment, generate-post), the comment and post          *)
(* orchestrators, the memory adapter and the image adapter, served by one  *)
(* asyncio event loop.                                                     *)
(***************************************************************************)
EXTENDS Integers, Sequences, FiniteSets, TLC

(***************************************************************************)
(* Python strings.  A str is kept run-length encoded: a sequence of runs   *)
(* [c |-> character, n |-> repetitions], n > 0, adjacent runs of different *)
(* characters.  The encoding is lossless, so len(), slicing, + and lower() *)
(* are computed exactly, also for texts of several thousand characters.    *)
(***************************************************************************)
Run(c, n) == [c |-> c, n |-> n]

Rep(c, n) == IF n = 0 THEN <<>> ELSE <<Run(c, n)>>

RECURSIVE StrLen(_)
StrLen(s) == IF s = <<>> THEN 0 ELSE Head(s).n + StrLen(Tail(s))

Concat(s, t) ==
    IF s = <<>> THEN t
    ELSE IF t = <<>> THEN s
    ELSE IF s[Len(s)].c = t[1].c
         THEN SubSeq(s, 1, Len(s) - 1)
              \o <<Run(t[1].c, s[Len(s)].n + t[1].n)>>
              \o Tail(t)
         ELSE s \o t

\* s[:k] for k >= 0
RECURSIVE Take(_, _)
Take(s, k) ==
    IF k = 0 \/ s = <<>> THEN <<>>
    ELSE IF Head(s).n >= k THEN <<Run(Head(s).c, k)>>
    ELSE <<Head(s)>> \o Take(Tail(s), k - Head(s).n)

\* a literal, written as the tuple of its characters
RECURSIVE Lit(_)
Lit(cs) == IF cs = <<>> THEN <<>> ELSE Concat(Rep(Head(cs), 1), Lit(Tail(cs)))

UpperToLower ==
    [A |-> "a", B |-> "b", C |-> "c", D |-> "d", E |-> "e", F |-> "f",
     G |-> "g", H |-> "h", I |-> "i", J |-> "j", K |-> "k", L |-> "l",
     M |-> "m", N |-> "n", O |-> "o", P |-> "p", Q |-> "q", R |-> "r",
     S |-> "s", T |-> "t", U |-> "u", V |-> "v", W |-> "w", X |-> "x",
     Y |-> "y", Z |-> "z"]

LowerChar(c) == IF c \in DOMAIN UpperToLower THEN UpperToLower[c] ELSE c

\* str.lower()
RECURSIVE Lower(_)
Lower(s) ==
    IF s = <<>> THEN <<>>
    ELSE CHOOSE v \in {Concat(<<Run(LowerChar(Head(s).c), Head(s).n)>>, t) :
                           t \in {Lower(Tail(s))}} : TRUE

\* truthiness of a str: the empty string is falsy
Truthy(s) == s # <<>>

(***************************************************************************)
(* Optional values: None is the empty tuple, a present value v is <<v>>.   *)
(***************************************************************************)
None == <<>>

Some(v) == <<v>>

IsSome(o) == o # <<>>

Get(o) == o[1]

(***************************************************************************)
(* Messages built by f-strings: a sequence of segments, each a literal     *)
(* piece or an interpolated value.                                         *)
(***************************************************************************)
F(text) == <<[lit |-> text, val |-> <<>>]>>

V(s) == <<[lit |-> "", val |-> s]>>

\* whether the message interpolates the text s
Carries(msg, s) == \E i \in 1..Len(msg) : msg[i].lit = "" /\ msg[i].val = s

(***************************************************************************)
(* Inbound request models (pydantic) and their validation.                 *)
(***************************************************************************)
UserIdMin == 1
UserIdMax == 100
PostTextMin == 3
PostTextMax == 5000
InputContextMin == 10
InputContextMax == 2000

Professional ==
    Lit(<<"P", "r", "o", "f", "e", "s", "s", "i", "o", "n", "a", "l">>)
Friendly == Lit(<<"F", "r", "i", "e", "n", "d", "l", "y">>)
Long == Lit(<<"L", "o", "n", "g">>)
Short == Lit(<<"S", "h", "o", "r", "t">>)
positive == Lit(<<"p", "o", "s", "i", "t", "i", "v", "e">>)
negative == Lit(<<"n", "e", "g", "a", "t", "i", "v", "e">>)

allowed_styles == {Professional, Friendly, Long, Short}

allowed_types == {positive, negative}

\* Field(..., min_length, max_length) on a str
LengthOk(s, lo, hi) == StrLen(s) >= lo /\ StrLen(s) <= hi

\* a request model without the style validator
validate_style_missing(v) == TRUE

validate_style(v) == v \in allowed_styles

validate_type(v) == Lower(v) \in allowed_types

\* whether pydantic builds a CommentGenerationRequest from the payload
CommentRequestValid(q) ==
    /\ LengthOk(q.user_id, UserIdMin, UserIdMax)
    /\ validate_style(q.comment_style)
    /\ validate_type(q.comment_type)
    /\ LengthOk(q.post_text, PostTextMin, PostTextMax)

\* the CommentGenerationRequest built: validate_type returns the lowered value
CommentGenerationRequest(q) == [q EXCEPT !.comment_type = Lower(q.comment_type)]

\* whether pydantic builds a PostGenerationRequest from the payload
PostRequestValid(q) ==
    /\ LengthOk(q.input_context, InputContextMin, InputContextMax)
    /\ LengthOk(q.user_id, UserIdMin, UserIdMax)

RequestValid(q) ==
    IF q.kind = "comment" THEN CommentRequestValid(q) ELSE PostRequestValid(q)

ParsedRequest(q) ==
    IF q.kind = "comment" THEN CommentGenerationRequest(q) ELSE q

(***************************************************************************)
(* The inbound payloads tried: a well-formed comment and post request, and *)
(* each field varied alone over valid, boundary and invalid values.        *)
(***************************************************************************)
U1 == Lit(<<"u", "1">>)
U2 == Lit(<<"u", "2">>)

UserIdInputs == {U1, U2, <<>>, Rep("u", UserIdMax), Rep("u", UserIdMax + 1)}

StyleInputs ==
    allowed_styles
    \cup {Lit(<<"C", "a", "s", "u", "a", "l">>), Lower(Professional), <<>>}

TypeInputs ==
    allowed_types
    \cup {Lit(<<"P", "o", "s", "i", "t", "i", "v", "e">>),
          Lit(<<"N", "E", "G", "A", "T", "I", "V", "E">>),
          Lit(<<"n", "e", "u", "t", "r", "a", "l">>), <<>>}

PostTextInputs ==
    {Rep("x", n) : n \in {0, PostTextMin - 1, PostTextMin,
                          PostTextMax, PostTextMax + 1}}

InputContextInputs ==
    {Rep("y", n) : n \in {InputContextMin - 1, InputContextMin,
                          InputContextMax, InputContextMax + 1}}

BaseComment ==
    [kind |-> "comment", user_id |-> U1, comment_style |-> Professional,
     comment_type |-> positive, post_text |-> Rep("x", PostTextMin)]

BasePost ==
    [kind |-> "post", user_id |-> U1,
     input_context |-> Rep("y", InputContextMin), image |-> TRUE]

CommentInputs ==
    {[BaseComment EXCEPT !.user_id = u] : u \in UserIdInputs}
    \cup {[BaseComment EXCEPT !.comment_style = s] : s \in StyleInputs}
    \cup {[BaseComment EXCEPT !.comment_type = t] : t \in TypeInputs}
    \cup {[BaseComment EXCEPT !.post_text = x] : x \in PostTextInputs}

PostInputs ==
    {[BasePost EXCEPT !.user_id = u] : u \in UserIdInputs}
    \cup {[BasePost EXCEPT !.input_context = x] : x \in InputContextInputs}
    \cup {[BasePost EXCEPT !.image = b] : b \in BOOLEAN}

Inputs == CommentInputs \cup PostInputs

(***************************************************************************)
(* Results of a Python call: a returned value or a raised exception.       *)
(***************************************************************************)
Return(v) == [raised |-> FALSE, value |-> v]

Raise(msg) == [raised |-> TRUE, error |-> msg]

\* dict.get(key) on a dict kept as a record
DictHas(d, k) == k \in DOMAIN d

(***************************************************************************)
(* Answers of the remote services.                                         *)
(***************************************************************************)
MaxTokens == 2

TokenCounts == 1..MaxTokens

RefusalTexts == {Lit(<<"n", "o">>)}

\* completion.choices[0].message with completion.usage.total_tokens
Message(refusal, parsed, tokens) ==
    [raised |-> FALSE, refusal |-> refusal, parsed |-> parsed,
     total_tokens |-> tokens]

\* the call failed: timeout, connection failure, malformed response
TransportFailure == [raised |-> TRUE, error |-> F("transport failure")]

linkedin_comment_model(c1, c2, c3) ==
    [linkedin_comment1 |-> c1, linkedin_comment2 |-> c2,
     linkedin_comment3 |-> c3]

CommentPayloads ==
    {linkedin_comment_model(Lit(<<"o", "n", "e">>), Lit(<<"t", "w", "o">>),
                            Lit(<<"s", "i", "x">>)),
     linkedin_comment_model(Lit(<<"o", "n", "e">>), <<>>,
                            Lit(<<"s", "i", "x">>))}

CommentAnswers ==
    {TransportFailure}
    \cup {Message(None, Some(p), t) : p \in CommentPayloads, t \in TokenCounts}
    \cup {Message(Some(x), None, t) : x \in RefusalTexts, t \in TokenCounts}
    \cup {Message(None, None, t) : t \in TokenCounts}

\* memory.add: the backend stores the entry, or fails
AddAnswers ==
    {[raised |-> FALSE, result |-> Some([results |-> <<[id |-> "m1"]>>])],
     [raised |-> FALSE, result |-> None],
     [raised |-> TRUE, error |-> F("memory backend failure")]}

(***************************************************************************)
(* Comment orchestrator (LinkedIn_comment.py).                             *)
(***************************************************************************)
DefaultLimit == 1000

style_limits(style) ==
    IF style = Professional THEN Some(1200)
    ELSE IF style = Friendly THEN Some(800)
    ELSE IF style = Long THEN Some(1250)
    ELSE IF style = Short THEN Some(400)
    ELSE None

\* every style resolved to the default
character_limit_default(style) == DefaultLimit

\* style_limits.get(comment_style, "1000")
character_limit(style) ==
    IF IsSome(style_limits(style)) THEN Get(style_limits(style))
    ELSE DefaultLimit

\* the user message of the completion request
CommentPrompt(post_text_data, comment_style, comment_type) ==
    [post_text |-> post_text_data, comment_style |-> comment_style,
     comment_type |-> comment_type,
     character_limit |-> character_limit(comment_style)]

\* what analyze_linkedin_comment does with the completion's answer:
\* returns (result, tokens) or raises
analyze_linkedin_comment(ans) ==
    IF ans.raised THEN Raise(ans.error)
    ELSE IF IsSome(ans.refusal) /\ Truthy(Get(ans.refusal))
         THEN Return([result |-> None, tokens |-> ans.total_tokens])
    ELSE IF ans.parsed = None
         THEN Raise(F("'NoneType' object has no attribute 'linkedin_comment'"))
    ELSE Return([result |-> Some(Get(ans.parsed)),
                 tokens |-> ans.total_tokens])

(***************************************************************************)
(* Memory adapter (user_activate_store.py).                                *)
(***************************************************************************)
\* the descriptive text built from the user id and the field mapping
data_text(user_id, user_data) ==
    [prefix |-> "User preferences for", user_id |-> user_id,
     fields |-> user_data]

\* memory ids extracted from the backend's result
memory_ids(result) ==
    IF IsSome(result) /\ DictHas(Get(result), "results")
    THEN [i \in 1..Len(Get(result).results) |-> Get(result).results[i].id]
    ELSE <<>>

\* store_user_data without its except branch
store_user_data_uncaught(user_id, user_data, add) ==
    IF add.raised
    THEN Raise(add.error)
    ELSE Return([success |-> TRUE,
                 message |-> F("User data stored successfully"),
                 memory_ids |-> memory_ids(add.result),
                 user_id |-> user_id, data_stored |-> user_data])

\* store_user_data, given the answer of memory.add
store_user_data(user_id, user_data, add) ==
    IF add.raised
    THEN Return([success |-> FALSE,
                 message |-> F("Error storing data: ") \o add.error,
                 user_id |-> user_id, error |-> add.error])
    ELSE Return([success |-> TRUE,
                 message |-> F("User data stored successfully"),
                 memory_ids |-> memory_ids(add.result),
                 user_id |-> user_id, data_stored |-> user_data])

\* the entry the backend keeps after a successful add
MemoryEntry(user_id, user_data) ==
    [user_id |-> user_id, memory |-> data_text(user_id, user_data),
     metadata |-> user_data]

(***************************************************************************)
(* Post orchestrator (LinkedIn_post.py): its pure parts.                   *)
(***************************************************************************)
PostLimit == 3000
PostKeep == 2950
WordLimit == 600
SearchLimit == 5

Ellipsis == Rep(".", 3)

\* the policy with the limit itself taken as too long
truncate_at_limit(generated_post) ==
    IF StrLen(generated_post) >= PostLimit
    THEN Concat(Take(generated_post, PostKeep), Ellipsis)
    ELSE generated_post

\* the truncation policy applied to the generated post
truncate(generated_post) ==
    IF StrLen(generated_post) > PostLimit
    THEN Concat(Take(generated_post, PostKeep), Ellipsis)
    ELSE generated_post

Whitespace == {" ", "\n", "\t"}

Digits == {"0", "1", "2", "3", "4", "5", "6", "7", "8", "9"}

\* the characters \w matches
WordChars ==
    DOMAIN UpperToLower \cup {UpperToLower[c] : c \in DOMAIN UpperToLower}
    \cup Digits \cup {"_"}

\* the longest prefix of s made of word characters
RECURSIVE WordPrefix(_)
WordPrefix(s) ==
    IF s = <<>> \/ Head(s).c \notin WordChars THEN <<>>
    ELSE <<Head(s)>> \o WordPrefix(Tail(s))

\* re.findall(r'#\w+', post_text)
RECURSIVE extract_hashtags(_)
extract_hashtags(post_text) ==
    IF post_text = <<>> THEN <<>>
    ELSE IF Head(post_text).c = "#" /\ WordPrefix(Tail(post_text)) # <<>>
    THEN <<Concat(Rep("#", 1), WordPrefix(Tail(post_text)))>>
         \o extract_hashtags(SubSeq(post_text,
                2 + Len(WordPrefix(Tail(post_text))), Len(post_text)))
    ELSE extract_hashtags(Tail(post_text))

\* len(s.split()), counted from a position inside or outside a word
RECURSIVE WordsFrom(_, _)
WordsFrom(s, inword) ==
    IF s = <<>> THEN 0
    ELSE IF Head(s).c \in Whitespace THEN WordsFrom(Tail(s), FALSE)
    ELSE (IF inword THEN 0 ELSE 1) + WordsFrom(Tail(s), TRUE)

word_count(s) == WordsFrom(s, FALSE)

FirstN(s, n) == SubSeq(s, 1, IF Len(s) < n THEN Len(s) ELSE n)

\* memory.search: the backend answers with the user's entries, or fails
SearchAnswers(store, user_id) ==
    {[raised |-> FALSE,
      results |-> FirstN(SelectSeq(store, LAMBDA e : e.user_id = user_id),
                         SearchLimit)],
     [raised |-> TRUE, error |-> F("memory backend failure")]}

\* get_user_data, given the answer of memory.search
get_user_data(user_id, query, search) ==
    IF search.raised
    THEN [success |-> FALSE, user_id |-> user_id, query |-> query,
          error |-> search.error, results |-> <<>>]
    ELSE [success |-> TRUE, user_id |-> user_id, query |-> query,
          results_count |-> Len(search.results), results |-> search.results]

PostAction ==
    Lit(<<"l", "i", "n", "k", "e", "d", "i", "n", "_", "p", "o", "s", "t", "_",
          "g", "e", "n", "e", "r", "a", "t", "e", "d">>)

PostWord == Lit(<<"p", "o", "s", "t">>)

\* the characters of a str, one by one
RECURSIVE Chars(_)
Chars(s) ==
    IF s = <<>> THEN <<>>
    ELSE [i \in 1..Head(s).n |-> Head(s).c] \o Chars(Tail(s))

\* sub in s
Contains(s, sub) ==
    \E i \in 0..(StrLen(s) - StrLen(sub)) :
        SubSeq(Chars(s), i + 1, i + StrLen(sub)) = Chars(sub)

\* "\n".join(lines)
RECURSIVE Join(_)
Join(lines) ==
    IF lines = <<>> THEN <<>>
    ELSE IF Len(lines) = 1 THEN lines[1]
    ELSE lines[1] \o F("\n") \o Join(Tail(lines))

\* result.get(key, default)
GetOr(d, k, default) == IF DictHas(d, k) THEN d[k] ELSE default

\* relevance scores are kept in tenths: score > 0.3
ScoreThreshold == 3

DateLength == 10

ActivityCap == 5

NewUserPreferences == F("No previous preferences found - this is a new user.")

NewUserActivity == F("No previous activity found - this is a new user.")

\* the prefs list: one line per result that is relevant enough
RECURSIVE PreferenceLines(_)
PreferenceLines(results) ==
    IF results = <<>> THEN <<>>
    ELSE (IF GetOr(Head(results), "score", 0) > ScoreThreshold
          THEN <<F("- ") \o V(GetOr(Head(results), "memory", <<>>))>>
          ELSE <<>>)
         \o PreferenceLines(Tail(results))

\* the keyword filter of the activity history
Topical(result) ==
    \/ Contains(GetOr(result, "memory", <<>>), PostAction)
    \/ Contains(Lower(GetOr(result, "memory", <<>>)), PostWord)

ActivityLine(result) ==
    F("- ") \o V(GetOr(result, "memory", <<>>)) \o F(" (Created: ")
    \o V(Take(GetOr(result, "created_at", <<>>), DateLength)) \o F(")")

\* the activities list: one line per result that passes the filter
RECURSIVE ActivityLines(_)
ActivityLines(results) ==
    IF results = <<>> THEN <<>>
    ELSE (IF Topical(Head(results)) THEN <<ActivityLine(Head(results))>>
          ELSE <<>>)
         \o ActivityLines(Tail(results))

\* whether "not d.get('success') or not d.get('results')" holds
NothingRead(d) ==
    \/ ~(DictHas(d, "success") /\ d.success)
    \/ ~(DictHas(d, "results") /\ d.results # <<>>)

\* format_user_preferences without its first test
format_user_preferences_unguarded(user_preferences) ==
    IF ~DictHas(user_preferences, "results") THEN Raise(F("KeyError: 'results'"))
    ELSE IF PreferenceLines(user_preferences.results) # <<>>
    THEN Return(Join(PreferenceLines(user_preferences.results)))
    ELSE Return(F("No specific preferences identified."))

format_user_preferences(user_preferences) ==
    IF NothingRead(user_preferences) THEN Return(NewUserPreferences)
    ELSE IF ~DictHas(user_preferences, "results")
    THEN Raise(F("KeyError: 'results'"))
    ELSE IF PreferenceLines(user_preferences.results) # <<>>
    THEN Return(Join(PreferenceLines(user_preferences.results)))
    ELSE Return(F("No specific preferences identified."))

format_user_activity(user_activity) ==
    IF NothingRead(user_activity) THEN Return(NewUserActivity)
    ELSE IF ~DictHas(user_activity, "results")
    THEN Raise(F("KeyError: 'results'"))
    ELSE IF ActivityLines(user_activity.results) # <<>>
    THEN Return(Join(FirstN(ActivityLines(user_activity.results),
                            ActivityCap)))
    ELSE Return(F("No previous post activity found."))

\* the system message's user context
PostPrompt(user_preferences, user_activity, input_data) ==
    [user_preferences |-> user_preferences.results,
     user_activity |-> user_activity.results,
     input_data |-> input_data]

\* the activity record of a generated post (the engagement flags and the
\* loop time it also carries are not modelled)
PostActivity(input_data, generated_post) ==
    [action |-> "linkedin_post_generated", input_context |-> input_data,
     generated_post |-> generated_post,
     post_length |-> StrLen(generated_post),
     hashtags_used |-> extract_hashtags(generated_post)]

\* the orchestrator's except Exception branch
PostFailure(e, user_id, input_data) ==
    [success |-> FALSE, error |-> e, user_id |-> user_id,
     input_context |-> input_data]

PostRefusal(refusal, total_tokens) ==
    [success |-> FALSE,
     error |-> F("Model refused to respond: ") \o V(refusal),
     tokens |-> total_tokens]

PostSuccess(generated_post, total_tokens, user_preferences, store_result, user_id, input_data) ==
    [success |-> TRUE, post |-> generated_post,
     character_count |-> StrLen(generated_post),
     word_count |-> word_count(generated_post),
     within_limits |-> StrLen(generated_post) <= PostLimit
                       /\ word_count(generated_post) <= WordLimit,
     hashtags |-> extract_hashtags(generated_post),
     tokens_used |-> total_tokens,
     user_preferences_used |-> user_preferences.success,
     activity_stored |-> store_result.success,
     user_id |-> user_id, input_context |-> input_data]

ShortPost ==
    Lit(<<"h", "i", " ", "#", "a", " ", "#", "b", " ", "#", "c", " ",
          "#", "d", "?">>)

LongPost == Concat(Rep("a", PostKeep), Rep("b", PostLimit - PostKeep + 1))

PostPayloads == {ShortPost, LongPost}

PostAnswers ==
    {TransportFailure}
    \cup {Message(None, Some([linkedin_post |-> p]), t) :
             p \in PostPayloads, t \in TokenCounts}
    \cup {Message(Some(x), None, t) : x \in RefusalTexts, t \in TokenCounts}
    \cup {Message(None, None, t) : t \in TokenCounts}

(***************************************************************************)
(* Image adapter (image_generation.py).                                    *)
(***************************************************************************)
ImagePrice == "0.04"

\* client.images.generate: an image url, no url, or a failure
ImageAnswers ==
    {[raised |-> FALSE, url |-> Some(Lit(<<"u", "r", "l">>))],
     [raised |-> FALSE, url |-> None],
     [raised |-> TRUE, error |-> F("image service failure")]}

\* generate_image: None on a remote error, else (url, price)
generate_image(img) ==
    IF img.raised THEN None ELSE Some([url |-> img.url, price |-> ImagePrice])

(***************************************************************************)
(* Responses to the inbound caller.                                        *)
(***************************************************************************)
Timestamp == "utcnow"

CommentGenerationResponse(success, status_code, comments, tokens_used, activity_stored, error) ==
    [status |-> 200,
     body |-> [success |-> success, status_code |-> status_code,
               comments |-> comments, tokens_used |-> tokens_used,
               activity_stored |-> activity_stored, error |-> error,
               timestamp |-> Timestamp]]

\* raise HTTPException(status_code, detail), rendered by the handler
http_exception_handler(status_code, detail) ==
    [status |-> status_code,
     body |-> [success |-> FALSE, error |-> Some(detail),
               timestamp |-> Timestamp]]

PostGenerationResponse(success, status_code, post, hashtags, tokens_used, user_preferences_used, activity_stored, image_requested, image_generated, image_url, image_price, error) ==
    [status |-> 200,
     body |-> [success |-> success, status_code |-> status_code,
               post |-> post, hashtags |-> hashtags,
               tokens_used |-> tokens_used,
               user_preferences_used |-> user_preferences_used,
               activity_stored |-> activity_stored,
               image_requested |-> image_requested,
               image_generated |-> image_generated,
               image_url |-> image_url, image_price |-> image_price,
               error |-> error, timestamp |-> Timestamp]]

\* pydantic rejects the payload: FastAPI answers 422
ValidationErrorResponse ==
    [status |-> 422, body |-> [detail |-> F("validation error")]]

(***************************************************************************)
(* State.                                                                  *)
(***************************************************************************)
NumReqs == 2

Reqs == 1..NumReqs

VARIABLES
    pc,         \* pc[r]: where request r is
    raw,        \* raw[r]: the inbound payload of r
    request,    \* request[r]: the validated request model, once built
    frame,      \* frame[r]: the local variables of r's handler
    calls,      \* calls[r]: the remote calls r has made, in order
    responses,  \* responses[r]: the responses sent to r's caller
    memory,     \* the entries the memory backend holds
    running,    \* the request whose code holds the event loop, or 0
    arg,        \* input of the function under test
    ret         \* its result

vars ==
    <<pc, raw, request, frame, calls, responses, memory, running, arg, ret>>

NoRequest == [kind |-> "none"]

EmptyFrame ==
    [user_preferences |-> None, analysis_response |-> None,
     total_tokens |-> None, result |-> None, store_result |-> None,
     image |-> None]

\* the backend may hold entries of earlier sessions
InitialStores ==
    {<<>>,
     <<MemoryEntry(U1, [action |-> "linkedin_post_generated"])>>}

\* no request has arrived
AtRest ==
    /\ pc = [r \in Reqs |-> "idle"]
    /\ raw = [r \in Reqs |-> NoRequest]
    /\ request = [r \in Reqs |-> None]
    /\ frame = [r \in Reqs |-> EmptyFrame]
    /\ calls = [r \in Reqs |-> <<>>]
    /\ responses = [r \in Reqs |-> <<>>]
    /\ running = 0

Init ==
    /\ AtRest
    /\ memory \in InitialStores
    /\ arg = None
    /\ ret = None

Call(svc, a) == [svc |-> svc, arg |-> a]

\* the locals analysis_response and total_tokens, set when the completion
\* call returns
Answered(f, ans) ==
    IF ans.raised THEN f
    ELSE [f EXCEPT !.analysis_response = Some(ans),
                   !.total_tokens = Some(ans.total_tokens)]

\* the handler ends and nothing is sent
RespondNothing(r, resp) ==
    /\ UNCHANGED responses
    /\ pc' = [pc EXCEPT ![r] = "done"]

\* a handler that answers from a result slot shared by all requests: what it
\* sends is the latest result any request has put there
RespondShared(r, resp) ==
    /\ responses' = [responses EXCEPT ![r] = Append(@,
           IF \E q \in Reqs \ {r} : pc[q] = "done"
           THEN responses[CHOOSE q \in Reqs \ {r} : pc[q] = "done"][1]
           ELSE resp)]
    /\ pc' = [pc EXCEPT ![r] = "done"]

\* the response is sent and the handler ends
Respond(r, resp) ==
    /\ responses' = [responses EXCEPT ![r] = Append(@, resp)]
    /\ pc' = [pc EXCEPT ![r] = "done"]

(***************************************************************************)
(* Arrival and validation of a request.                                    *)
(***************************************************************************)
Arrive(r, w) ==
    /\ pc[r] = "idle"
    /\ \E q \in w.inputs : raw' = [raw EXCEPT ![r] = q]
    /\ pc' = [pc EXCEPT ![r] = "received"]
    /\ UNCHANGED <<request, frame, calls, responses, memory, running, arg, ret>>

\* FastAPI builds the request model before the endpoint runs
Validate(r) ==
    /\ pc[r] = "received"
    /\ running = 0
    /\ IF RequestValid(raw[r])
       THEN /\ request' = [request EXCEPT ![r] = Some(ParsedRequest(raw[r]))]
            /\ pc' = [pc EXCEPT ![r] = "accepted"]
            /\ UNCHANGED responses
       ELSE /\ Respond(r, ValidationErrorResponse)
            /\ UNCHANGED request
    /\ UNCHANGED <<raw, frame, calls, memory, running, arg, ret>>

(***************************************************************************)
(* generate_linkedin_comment (app.py).                                     *)
(***************************************************************************)
\* the endpoint's except Exception branch
CommentInternalError(e) ==
    CommentGenerationResponse(FALSE, 500, None, None, None,
                              Some(F("Internal server error: ") \o e))

CommentActivity(req, result) ==
    [post_text_preview |-> req.post_text,
     comment_generated1 |-> result.linkedin_comment1,
     comment_generated2 |-> result.linkedin_comment2,
     comment_generated3 |-> result.linkedin_comment3]

CommentsOf(result) ==
    [comment1 |-> result.linkedin_comment1,
     comment2 |-> result.linkedin_comment2,
     comment3 |-> result.linkedin_comment3]

\* the endpoint starts: the orchestrator builds the prompt and awaits the
\* completion, which suspends the handler
StartComment(r) ==
    /\ pc[r] = "accepted"
    /\ Get(request[r]).kind = "comment"
    /\ running = 0
    /\ calls' = [calls EXCEPT ![r] = Append(@,
           Call("completion",
                CommentPrompt(Get(request[r]).post_text,
                              Get(request[r]).comment_style,
                              Get(request[r]).comment_type)))]
    /\ pc' = [pc EXCEPT ![r] = "await_completion"]
    /\ UNCHANGED <<raw, request, frame, responses, memory, running, arg, ret>>

\* the completion answered and the handler resumes, up to its response or
\* to the call of store_user_data
CommentCompleted(r, w) ==
    /\ pc[r] = "await_completion"
    /\ Get(request[r]).kind = "comment"
    /\ running = 0
    /\ \E ans \in w.comment_answers :
         LET got == analyze_linkedin_comment(ans)
             req == Get(request[r])
         IN  IF got.raised
             THEN /\ Respond(r, CommentInternalError(got.error))
                  /\ frame' = [frame EXCEPT ![r] = Answered(@, ans)]
                  /\ UNCHANGED <<calls, running>>
             ELSE IF got.value.result = None
             THEN /\ Respond(r, http_exception_handler(500,
                                   F("Failed to generate comments")))
                  /\ frame' = [frame EXCEPT ![r] = Answered(@, ans)]
                  /\ UNCHANGED <<calls, running>>
             ELSE /\ frame' = [frame EXCEPT
                          ![r] = [Answered(@, ans) EXCEPT
                                     !.result = got.value.result]]
                  /\ calls' = [calls EXCEPT ![r] = Append(@,
                         Call("memory_add",
                              [user_id |-> req.user_id,
                               data |-> CommentActivity(req,
                                            Get(got.value.result))]))]
                  /\ running' = r
                  /\ pc' = [pc EXCEPT ![r] = "store_activity"]
                  /\ UNCHANGED responses
    /\ UNCHANGED <<raw, request, memory, arg, ret>>

\* memory.add answered (the handler held the loop meanwhile): the response
CommentStored(r, w) ==
    /\ pc[r] = "store_activity"
    /\ Get(request[r]).kind = "comment"
    /\ running = r
    /\ \E add \in w.add_answers :
         LET req == Get(request[r])
             result == Get(frame[r].result)
             data == CommentActivity(req, result)
             store_result == store_user_data(req.user_id, data, add)
         IN  /\ memory' = IF add.raised THEN memory
                          ELSE Append(memory, MemoryEntry(req.user_id, data))
             /\ frame' = [frame EXCEPT ![r].store_result = Some(store_result)]
             /\ IF store_result.raised
                THEN Respond(r, CommentInternalError(store_result.error))
                ELSE Respond(r, CommentGenerationResponse(
                         TRUE, 200, Some(CommentsOf(result)),
                         frame[r].total_tokens,
                         Some(store_result.value.success), None))
    /\ running' = 0
    /\ UNCHANGED <<raw, request, calls, arg, ret>>

(***************************************************************************)
(* generate_linkedin_post (app.py) around generate_intelligent_linkedin_   *)
(* post (LinkedIn_post.py).                                                *)
(***************************************************************************)
PreferencesQuery == "linkedin post preferences"

ActivityQuery == "previous posts and activity"

NoImage == [image_url |-> None, image_price |-> None, image_generated |-> FALSE]

\* url, price = generate_image(...): unpacking None raises
Unpack(got) ==
    IF got = None
    THEN Raise(F("cannot unpack non-iterable NoneType object"))
    ELSE Return(Get(got))

\* a failure of the image step reaches the endpoint's outer handler
ImageOutcomeUncaught(got) ==
    IF Unpack(got).raised THEN Unpack(got)
    ELSE IF IsSome(Unpack(got).value.url)
            /\ Truthy(Get(Unpack(got).value.url))
    THEN Return([image_url |-> Unpack(got).value.url,
                 image_price |-> Some(Unpack(got).value.price),
                 image_generated |-> TRUE])
    ELSE Return(NoImage)

\* the endpoint's image step on generate_image's return value: the inner
\* except catches what the step raises and leaves the image out
ImageOutcome(got) ==
    IF Unpack(got).raised THEN Return(NoImage)
    ELSE IF IsSome(Unpack(got).value.url)
            /\ Truthy(Get(Unpack(got).value.url))
    THEN Return([image_url |-> Unpack(got).value.url,
                 image_price |-> Some(Unpack(got).value.price),
                 image_generated |-> TRUE])
    ELSE Return(NoImage)

\* the endpoint's except Exception branch
PostInternalError(e) ==
    PostGenerationResponse(FALSE, 500, None, None, None, None, None, None,
                           None, None, None,
                           Some(F("Internal server error: ") \o e))

\* the endpoint's last part, from "if not result.get('success')" on
PostResponse(req, result, image) ==
    IF ~result.success
    THEN http_exception_handler(500,
             F("Failed to generate post: ") \o result.error)
    ELSE PostGenerationResponse(
             TRUE, 200, Some(result.post), Some(result.hashtags),
             Some(result.tokens_used), Some(result.user_preferences_used),
             Some(result.activity_stored), Some(req.image),
             Some(image.image_generated), image.image_url,
             image.image_price, None)

\* the orchestrator returned result, its locals being f: the endpoint goes
\* on, without suspending, to the image step or to its response
PostReturned(r, result, f) ==
    LET req == Get(request[r])
    IN  /\ frame' = [frame EXCEPT ![r] = [f EXCEPT !.result = Some(result)]]
        /\ IF req.image = TRUE
           THEN /\ calls' = [calls EXCEPT ![r] = Append(@,
                       Call("image",
                            [prompt |-> IF DictHas(result, "post")
                                        THEN Some(result.post) ELSE None]))]
                /\ running' = r
                /\ pc' = [pc EXCEPT ![r] = "generate_image"]
                /\ UNCHANGED responses
           ELSE /\ Respond(r, PostResponse(req, result, NoImage))
                /\ running' = 0
                /\ UNCHANGED calls

\* an orchestrator that awaits the completion without reading the memory
StartPostUnread(r) ==
    /\ pc[r] = "accepted"
    /\ Get(request[r]).kind = "post"
    /\ running = 0
    /\ \E unread \in {get_user_data(Get(request[r]).user_id, PreferencesQuery,
                                     Raise(F("not read")))} :
         /\ frame' = [frame EXCEPT ![r].user_preferences = Some(unread)]
         /\ calls' = [calls EXCEPT ![r] = Append(@,
                Call("completion",
                     PostPrompt(unread, unread,
                                Get(request[r]).input_context)))]
    /\ pc' = [pc EXCEPT ![r] = "await_completion"]
    /\ UNCHANGED <<raw, request, responses, memory, running, arg, ret>>

\* the endpoint starts: the orchestrator calls get_user_data for the
\* preferences, a blocking call
StartPost(r) ==
    /\ pc[r] = "accepted"
    /\ Get(request[r]).kind = "post"
    /\ running = 0
    /\ calls' = [calls EXCEPT ![r] = Append(@,
           Call("memory_search",
                [user_id |-> Get(request[r]).user_id,
                 query |-> PreferencesQuery]))]
    /\ running' = r
    /\ pc' = [pc EXCEPT ![r] = "read_preferences"]
    /\ UNCHANGED <<raw, request, frame, responses, memory, arg, ret>>

\* the first search answered: get_user_data for the activity
PreferencesRead(r, w) ==
    /\ pc[r] = "read_preferences"
    /\ running = r
    /\ \E search \in {a \in SearchAnswers(memory, Get(request[r]).user_id) :
                            a.raised => w.search_fails} :
         frame' = [frame EXCEPT ![r].user_preferences =
             Some(get_user_data(Get(request[r]).user_id, PreferencesQuery,
                                search))]
    /\ calls' = [calls EXCEPT ![r] = Append(@,
           Call("memory_search",
                [user_id |-> Get(request[r]).user_id,
                 query |-> ActivityQuery]))]
    /\ pc' = [pc EXCEPT ![r] = "read_activity"]
    /\ UNCHANGED <<raw, request, responses, memory, running, arg, ret>>

\* the second search answered: the prompt is built and the completion
\* awaited, which suspends the handler
ActivityRead(r, w) ==
    /\ pc[r] = "read_activity"
    /\ running = r
    /\ \E search \in {a \in SearchAnswers(memory, Get(request[r]).user_id) :
                            a.raised => w.search_fails} :
         calls' = [calls EXCEPT ![r] = Append(@,
             Call("completion",
                  PostPrompt(Get(frame[r].user_preferences),
                             get_user_data(Get(request[r]).user_id,
                                           ActivityQuery, search),
                             Get(request[r]).input_context)))]
    /\ running' = 0
    /\ pc' = [pc EXCEPT ![r] = "await_completion"]
    /\ UNCHANGED <<raw, request, frame, responses, memory, arg, ret>>

\* the completion answered and the handler resumes: a failure or refusal
\* returns to the endpoint, a post is truncated and store_user_data called
PostCompleted(r, w) ==
    /\ pc[r] = "await_completion"
    /\ Get(request[r]).kind = "post"
    /\ running = 0
    /\ \E ans \in w.post_answers :
         LET req == Get(request[r])
         IN  IF ans.raised
             THEN PostReturned(r,
                      PostFailure(ans.error, req.user_id, req.input_context),
                      frame[r])
             ELSE IF IsSome(ans.refusal) /\ Truthy(Get(ans.refusal))
             THEN PostReturned(r,
                      PostRefusal(Get(ans.refusal), ans.total_tokens),
                      Answered(frame[r], ans))
             ELSE IF ans.parsed = None
             THEN PostReturned(r,
                      PostFailure(
                          F("'NoneType' object has no attribute 'linkedin_post'"),
                          req.user_id, req.input_context),
                      Answered(frame[r], ans))
             ELSE LET generated_post == truncate(Get(ans.parsed).linkedin_post)
                  IN  /\ frame' = [frame EXCEPT
                              ![r] = [Answered(@, ans) EXCEPT
                                  !.result = Some([post |-> generated_post])]]
                      /\ calls' = [calls EXCEPT ![r] = Append(@,
                             Call("memory_add",
                                  [user_id |-> req.user_id,
                                   data |-> PostActivity(req.input_context,
                                                         generated_post)]))]
                      /\ running' = r
                      /\ pc' = [pc EXCEPT ![r] = "store_activity"]
                      /\ UNCHANGED responses
    /\ UNCHANGED <<raw, request, memory, arg, ret>>

\* memory.add answered: the orchestrator returns its result to the endpoint
PostStored(r, w) ==
    /\ pc[r] = "store_activity"
    /\ Get(request[r]).kind = "post"
    /\ running = r
    /\ \E add \in w.add_answers, req \in {Get(request[r])},
          generated_post \in {Get(frame[r].result).post} :
         \E data \in {PostActivity(req.input_context, generated_post)} :
         \E store_result \in {store_user_data(req.user_id, data, add)} :
         \E result \in
             {IF store_result.raised
              THEN PostFailure(store_result.error, req.user_id,
                               req.input_context)
              ELSE PostSuccess(generated_post, Get(frame[r].total_tokens),
                               Get(frame[r].user_preferences),
                               store_result.value, req.user_id,
                               req.input_context)} :
             /\ memory' = IF add.raised THEN memory
                          ELSE Append(memory, MemoryEntry(req.user_id, data))
             /\ PostReturned(r, result,
                     [frame[r] EXCEPT !.store_result = Some(store_result)])
    /\ UNCHANGED <<raw, request, arg, ret>>

\* the image service answered: the endpoint's response
ImageGenerated(r, w) ==
    /\ pc[r] = "generate_image"
    /\ running = r
    /\ \E img \in w.image_answers :
         /\ frame' = [frame EXCEPT ![r].image = Some(img)]
         /\ IF ImageOutcome(generate_image(img)).raised
            THEN Respond(r, PostInternalError(
                     ImageOutcome(generate_image(img)).error))
            ELSE Respond(r, PostResponse(Get(request[r]),
                     Get(frame[r].result),
                     ImageOutcome(generate_image(img)).value))
    /\ running' = 0
    /\ UNCHANGED <<raw, request, calls, memory, arg, ret>>

(***************************************************************************)
(* Specifications.  A world names the payloads that arrive and the answers *)
(* the completion service gives.                                           *)
(***************************************************************************)
World ==
    [inputs |-> Inputs, comment_answers |-> CommentAnswers,
     post_answers |-> PostAnswers, add_answers |-> AddAnswers,
     image_answers |-> ImageAnswers, search_fails |-> TRUE]

Step(r, w) ==
    \/ Arrive(r, w)
    \/ Validate(r)
    \/ StartComment(r)
    \/ CommentCompleted(r, w)
    \/ CommentStored(r, w)
    \/ StartPost(r)
    \/ PreferencesRead(r, w)
    \/ ActivityRead(r, w)
    \/ PostCompleted(r, w)
    \/ PostStored(r, w)
    \/ ImageGenerated(r, w)

\* one request, every payload and every answer
Next == Step(1, World)

Spec == Init /\ [][Next]_vars

\* concurrent requests: a comment request of one user and a post request of
\* another, each completion answered by content or by a refusal, the memory
\* read and the image service answering, the memory write stored or failed
ServingWorld ==
    [inputs |-> {BaseComment, [BasePost EXCEPT !.user_id = U2]},
     comment_answers |->
         {a \in CommentAnswers :
             /\ ~a.raised
             /\ a.total_tokens = 1
             /\ a.parsed # None => \A f \in DOMAIN Get(a.parsed) :
                                       Get(a.parsed)[f] # <<>>
             /\ a.parsed = None => a.refusal # None},
     post_answers |->
         {a \in PostAnswers :
             /\ ~a.raised
             /\ a.total_tokens = 1
             /\ a.parsed # None => Get(a.parsed).linkedin_post = ShortPost
             /\ a.parsed = None => a.refusal # None},
     add_answers |-> {a \in AddAnswers : a.raised \/ a.result # None},
     image_answers |-> {a \in ImageAnswers : ~a.raised /\ a.url # None},
     search_fails |-> FALSE]

NextServing == \E r \in Reqs : Step(r, ServingWorld)

SpecServing == Init /\ [][NextServing]_vars

\* the same, each remote answer arriving and each handler resumed in the end
FairSpec == Spec /\ WF_vars(Next)

(***************************************************************************)
(* The truncation policy applied to one post body.                         *)
(***************************************************************************)
TruncateSpan == 3

\* a post body of n characters: k times "a", then "b"
Body(k, n) == Concat(Rep("a", k), Rep("b", n - k))

TruncateLengths ==
    {0, 1, PostLimit + 100}
    \cup (PostKeep - TruncateSpan)..(PostLimit + TruncateSpan)

TruncateInputs ==
    {Body(k, n) : k \in {0, PostKeep - 1, PostKeep, PostKeep + 1},
                  n \in {m \in TruncateLengths : m > PostKeep}}
    \cup {Body(0, n) : n \in TruncateLengths}

InitTruncate ==
    /\ AtRest
    /\ memory = <<>>
    /\ arg \in {Some(b) : b \in TruncateInputs}
    /\ ret = None

ApplyTruncate ==
    /\ ret = None
    /\ ret' = Some(truncate(Get(arg)))
    /\ UNCHANGED <<pc, raw, request, frame, calls, responses, memory,
                   running, arg>>

SpecTruncate == InitTruncate /\ [][ApplyTruncate]_vars

(***************************************************************************)
(* store_user_data applied to one user id, field mapping and answer of the *)
(* backend.                                                                *)
(***************************************************************************)
StoreFieldInputs ==
    {CommentActivity(BaseComment,
                     linkedin_comment_model(Rep("c", 1), Rep("d", 1),
                                            Rep("e", 1))),
     PostActivity(BasePost.input_context, ShortPost),
     [application |-> "linkedin_posts", posting_style |-> "professional"],
     <<>>}

StoreAddInputs ==
    AddAnswers
    \cup {[raised |-> FALSE, result |-> Some([results |-> <<>>])],
          [raised |-> FALSE, result |-> Some([relations |-> <<>>])],
          [raised |-> TRUE, error |-> F("embedding failure")]}

InitStore ==
    /\ AtRest
    /\ memory = <<>>
    /\ arg \in {Some([user_id |-> u, user_data |-> d, add |-> a]) :
                   u \in UserIdInputs, d \in StoreFieldInputs,
                   a \in StoreAddInputs}
    /\ ret = None

ApplyStore ==
    /\ ret = None
    /\ ret' = Some(store_user_data(Get(arg).user_id, Get(arg).user_data,
                                   Get(arg).add))
    /\ UNCHANGED <<pc, raw, request, frame, calls, responses, memory,
                   running, arg>>

SpecStore == InitStore /\ [][ApplyStore]_vars

(***************************************************************************)
(* format_user_preferences and format_user_activity applied to one result  *)
(* of get_user_data.                                                       *)
(***************************************************************************)
FormatMaxResults == 2

DayDigits == <<"1", "2", "3", "4", "5", "6", "7", "8", "9">>

\* a creation timestamp on day d of a month, as the backend writes it
Stamp(d) ==
    Concat(Lit(<<"2", "0", "2", "4", "-", "0", "1", "-", "0">>),
           Concat(Rep(DayDigits[d], 1),
                  Lit(<<"T", "0", "9", ":", "3", "0">>)))

FormatMemories ==
    {Lit(<<"a", " ", "p", "o", "s", "t">>), Lit(<<"P", "o", "s", "t">>),
     Lit(<<"j", "o", "b">>)}

\* one entry of a search answer
FormatEntries ==
    {[memory |-> m, score |-> sc, created_at |-> Stamp(d)] :
        m \in FormatMemories,
        sc \in {ScoreThreshold, ScoreThreshold + 1},
        d \in 1..FormatMaxResults}
    \cup {[id |-> "m0"]}

RECURSIVE ListsUpTo(_, _)
ListsUpTo(S, n) ==
    IF n = 0 THEN {<<>>}
    ELSE ListsUpTo(S, n - 1)
         \cup {<<e>> \o l : e \in S,
                             l \in {k \in ListsUpTo(S, n - 1) : Len(k) = n - 1}}

\* a history of matching entries, one per day, in the order given
History(days) ==
    [i \in 1..Len(days) |->
        [memory |-> PostAction, score |-> ScoreThreshold + 1,
         created_at |-> Stamp(days[i])]]

FormatResultLists ==
    ListsUpTo(FormatEntries, FormatMaxResults)
    \cup {History([i \in 1..n |-> i]) : n \in 1..(ActivityCap + 1)}
    \cup {History([i \in 1..n |-> n + 1 - i]) : n \in 1..(ActivityCap + 1)}

FormatInputs ==
    {get_user_data(U1, ActivityQuery, a) :
        a \in {[raised |-> FALSE, results |-> l] : l \in FormatResultLists}
              \cup {[raised |-> TRUE, error |-> F("memory backend failure")]}}

InitFormat ==
    /\ AtRest
    /\ memory = <<>>
    /\ arg \in {Some(d) : d \in FormatInputs}
    /\ ret = None

ApplyFormat ==
    /\ ret = None
    /\ ret' = Some([preferences |-> format_user_preferences(Get(arg)),
                    activity |-> format_user_activity(Get(arg))])
    /\ UNCHANGED <<pc, raw, request, frame, calls, responses, memory,
                   running, arg>>

SpecFormat == InitFormat /\ [][ApplyFormat]_vars

(***************************************************************************)
(* Properties.                                                             *)
(***************************************************************************)
Done(r) == pc[r] = "done"

Response(r) == responses[r][1]

IsPost(r) == raw[r].kind = "post"

IsComment(r) == raw[r].kind = "comment"

\* the completion call of r returned a message flagged as refused
Refused(r) ==
    /\ frame[r].analysis_response # None
    /\ Get(frame[r].analysis_response).refusal # None
    /\ Truthy(Get(Get(frame[r].analysis_response).refusal))

\* the completion call of r returned a parsed payload
Generated(r) ==
    /\ frame[r].analysis_response # None
    /\ Get(frame[r].analysis_response).parsed # None

Called(r, svc) == \E i \in 1..Len(calls[r]) : calls[r][i].svc = svc


\* the image service failed on r's call
ImageFailed(r) == frame[r].image # None /\ Get(frame[r].image).raised

\* the completion call of r was made and gave neither content nor a refusal:
\* a transport failure or a message without payload
Faulted(r) == Called(r, "completion") /\ ~Refused(r) /\ ~Generated(r)

\* r's response says success = true
Succeeded(r) ==
    "success" \in DOMAIN Response(r).body /\ Response(r).body.success

\* pydantic rejected r's payload
Rejected(r) == Done(r) /\ Response(r).status = 422

\* C1: a post request whose completion call returns a refusal ends in a
\* failure, and neither the memory write nor the Image Adapter is called for
\* it, also when the image was requested.
C1_RefusalSkipsLaterSteps ==
    \A r \in Reqs :
        IsPost(r) /\ Refused(r) =>
            /\ ~Called(r, "memory_add")
            /\ ~Called(r, "image")
            /\ Done(r) => ~Response(r).body.success

\* C2: a request whose completion is flagged as refused gets a failure that
\* carries the refusal text and the token count of that completion call, and
\* no content field.
C2_RefusalResult ==
    \A r \in Reqs :
        Done(r) /\ Refused(r) =>
            LET b == Response(r).body
            IN  /\ ~b.success
                /\ "error" \in DOMAIN b
                /\ b.error # None
                /\ Carries(Get(b.error),
                           Get(Get(frame[r].analysis_response).refusal))
                /\ "tokens_used" \in DOMAIN b
                /\ b.tokens_used = frame[r].total_tokens
                /\ \A f \in {"comments", "post", "hashtags"} :
                       f \in DOMAIN b => b[f] = None

\* C3: a post request with the image requested whose completion gave a post
\* is answered with success and that post when the image service fails:
\* image_requested is true, image_generated false, and there is no image url
\* or price.
C3_ImageFailureKeepsPost ==
    \A r \in Reqs :
        IsPost(r) /\ Done(r) /\ raw[r].image /\ Generated(r) /\ ImageFailed(r)
        =>  LET b == Response(r).body
            IN  /\ b.success
                /\ "post" \in DOMAIN b
                /\ b.post = Some(Get(frame[r].result).post)
                /\ b.image_requested = Some(TRUE)
                /\ b.image_generated = Some(FALSE)
                /\ b.image_url = None
                /\ b.image_price = None

C3_Witness ==
    \E r \in Reqs :
        /\ IsPost(r) /\ Done(r) /\ raw[r].image /\ Generated(r)
        /\ ImageFailed(r)
        /\ Response(r).body.success

\* C4: every request that arrived is answered in the end, by exactly one
\* response, whatever the completion, memory and image services answer; a
\* completion that fails or carries no payload yields a failure response of
\* status 500 with an error text.
C4_EveryRequestAnswered ==
    /\ \A r \in Reqs : (pc[r] # "idle") ~> Done(r)
    /\ [](\A r \in Reqs : Len(responses[r]) = IF Done(r) THEN 1 ELSE 0)
    /\ [](\A r \in Reqs :
            Done(r) /\ Faulted(r) =>
                LET b == Response(r).body
                IN  /\ ~b.success
                    /\ b.error # None
                    /\ \/ Response(r).status = 500
                       \/ "status_code" \in DOMAIN b /\ b.status_code = 500)

C4_Witness ==
    \E r \in Reqs : Done(r) /\ Faulted(r) /\ Len(responses[r]) = 1

\* what the request model asks of a payload, the sentiment taken as written
OutOfBounds(q) ==
    IF q.kind = "comment"
    THEN \/ q.comment_style \notin {Professional, Friendly, Long, Short}
         \/ q.comment_type \notin {positive, negative}
         \/ StrLen(q.post_text) < 3
         \/ StrLen(q.post_text) > 5000
    ELSE \/ StrLen(q.input_context) < 10
         \/ StrLen(q.input_context) > 2000

\* the same, the sentiment compared in lower case
OutOfBoundsLowered(q) ==
    IF q.kind = "comment"
    THEN \/ q.comment_style \notin {Professional, Friendly, Long, Short}
         \/ Lower(q.comment_type) \notin {positive, negative}
         \/ StrLen(q.post_text) < 3
         \/ StrLen(q.post_text) > 5000
    ELSE \/ StrLen(q.input_context) < 10
         \/ StrLen(q.input_context) > 2000

\* C5 as stated: a request whose style is not one of the four styles, whose
\* sentiment is not positive or negative, or whose text length is out of
\* bounds is rejected, and no remote call is made for it.
C5_InvalidRejected ==
    \A r \in Reqs :
        raw[r] # NoRequest /\ OutOfBounds(raw[r]) =>
            /\ calls[r] = <<>>
            /\ pc[r] # "received" => Rejected(r)

\* C5, amended: a request whose style is not one of the four styles, whose
\* sentiment in lower case is not positive or negative, or whose text length
\* is out of bounds is rejected, and no remote call is made for it.
C5_InvalidRejectedLowered ==
    \A r \in Reqs :
        raw[r] # NoRequest /\ OutOfBoundsLowered(raw[r]) =>
            /\ calls[r] = <<>>
            /\ pc[r] # "received" => Rejected(r)

C5_Witness ==
    \E r \in Reqs :
        /\ IsComment(r)
        /\ Lower(raw[r].comment_type) \notin {positive, negative}
        /\ Rejected(r)
        /\ calls[r] = <<>>

\* C6: once the completion call of a request has returned a token count,
\* the response of that request carries this count, whatever happens later.
C6_TokensPropagated ==
    \A r \in Reqs :
        Done(r) /\ frame[r].total_tokens # None =>
            /\ "tokens_used" \in DOMAIN Response(r).body
            /\ Response(r).body.tokens_used = frame[r].total_tokens

\* the handler waits for the answer of a remote call
WaitsForRemote(r) ==
    pc[r] \in {"await_completion", "read_preferences", "read_activity",
               "store_activity", "generate_image"}

\* the request needs the event loop for its next step
Pending(r) == pc[r] \in {"received", "accepted", "await_completion"}

\* C7: while a request waits for the answer of a remote call (completion,
\* memory read, memory write, image), it does not hold the event loop, so
\* another pending request can take a step.
C7_RemoteCallsSuspend ==
    \A r \in Reqs : \A q \in Reqs \ {r} :
        WaitsForRemote(r) /\ Pending(q) => running # r

\* C8: a post body longer than 3000 characters is returned as its first 2950
\* characters followed by the three-character ellipsis, 2953 characters in
\* all; a body of at most 3000 characters is returned unchanged.
C8_Truncation ==
    ret # None =>
        LET body == Get(arg)
            post == Get(ret)
        IN  IF StrLen(body) > 3000
            THEN /\ StrLen(post) = 2953
                 /\ Take(post, 2950) = Take(body, 2950)
                 /\ post[Len(post)] = Run(".", 3)
            ELSE post = body

C8_Witness ==
    /\ ret # None
    /\ StrLen(Get(arg)) = 3100
    /\ StrLen(Get(ret)) = 2953
    /\ Get(arg)[1].c = "a"

\* C9: a comment response with success = true holds exactly three variants,
\* none of them the empty string.
C9_ThreeNonEmptyVariants ==
    \A r \in Reqs :
        IsComment(r) /\ Done(r) /\ Succeeded(r) =>
            LET c == Response(r).body.comments
            IN  /\ c # None
                /\ DOMAIN Get(c) = {"comment1", "comment2", "comment3"}
                /\ \A k \in DOMAIN Get(c) : Get(c)[k] # <<>>

\* C10: store_user_data returns and does not raise; what it returns carries
\* a boolean success flag and the user id, and success is false exactly
\* when the backend's add failed.
C10_StoreNeverRaises ==
    ret # None =>
        LET out == Get(ret)
        IN  /\ ~out.raised
            /\ out.value.success \in BOOLEAN
            /\ out.value.user_id = Get(arg).user_id
            /\ out.value.success = ~Get(arg).add.raised

C10_Witness ==
    /\ ret # None
    /\ Get(arg).add.raised
    /\ ~Get(ret).raised
    /\ ~Get(ret).value.success
    /\ Get(arg).user_id = U2

\* the activity record r's handler hands to store_user_data
ActivityOf(r) ==
    IF IsComment(r)
    THEN CommentActivity(Get(request[r]), Get(frame[r].result))
    ELSE PostActivity(Get(request[r]).input_context, Get(frame[r].result).post)

\* the backend holds a record of r's generation event under r's user id
Recorded(r) ==
    \E i \in 1..Len(memory) :
        memory[i] = MemoryEntry(Get(request[r]).user_id, ActivityOf(r))

\* C11: for every response with success = true the memory backend holds a
\* record of that generation event under the user id of the request.
C11_SuccessHasRecord ==
    \A r \in Reqs : Done(r) /\ Succeeded(r) => Recorded(r)

\* the place of a remote service in the documented control flow
Rank(svc) ==
    CASE svc = "memory_search" -> 1
      [] svc = "completion" -> 2
      [] svc = "memory_add" -> 3
      [] svc = "image" -> 4

\* the services r has called, in the order of the calls
Services(r) == [i \in 1..Len(calls[r]) |-> calls[r][i].svc]

EmptyText(text) == \A i \in 1..Len(text) : text[i].lit = "" /\ text[i].val = <<>>

\* C13: when the memory read gave no results (a new user, or a failed
\* search) both the preferences section and the activity section are the
\* "new user" placeholder; for every read result neither formatter raises
\* and neither section is the empty string.
C13_NewUserPlaceholder ==
    ret # None =>
        LET read == Get(arg)
            out == Get(ret)
        IN  /\ ~out.preferences.raised
            /\ ~out.activity.raised
            /\ ~EmptyText(out.preferences.value)
            /\ ~EmptyText(out.activity.value)
            /\ ~read.success \/ read.results = <<>> =>
                   /\ out.preferences.value =
                        F("No previous preferences found - this is a new user.")
                   /\ out.activity.value =
                        F("No previous activity found - this is a new user.")

C13_Witness ==
    /\ ret # None
    /\ ~Get(arg).success
    /\ Get(ret).preferences.value = NewUserPreferences
    /\ Get(ret).activity.value = NewUserActivity

\* the lines of a text joined by newlines
RECURSIVE SplitLines(_, _)
SplitLines(text, line) ==
    IF text = <<>> THEN <<line>>
    ELSE IF Head(text) = F("\n")[1]
    THEN <<line>> \o SplitLines(Tail(text), <<>>)
    ELSE SplitLines(Tail(text), Append(line, Head(text)))

\* the day of a creation timestamp; an entry without one counts as oldest
DayOf(result) ==
    IF DictHas(result, "created_at")
    THEN CHOOSE d \in 1..Len(DayDigits) : Stamp(d) = result.created_at
    ELSE 0

\* how an entry is to be shown: its text, and its timestamp cut to the date
Shown(result) ==
    F("- ") \o V(GetOr(result, "memory", <<>>)) \o F(" (Created: ")
    \o V(Take(GetOr(result, "created_at", <<>>), 10)) \o F(")")

C14_AtMostThreeHashtags ==
    \A r \in Reqs :
        IsPost(r) /\ Done(r) /\ Succeeded(r) =>
            /\ Len(Get(frame[r].result).hashtags) <= 3
            /\ Len(Get(Response(r).body.hashtags)) <= 3

\* C15: every response sent to the caller carries a success flag, a status
\* indicator (the HTTP status or a status_code field) and a timestamp, and
\* an error description when success is false.
C15_ResponseEnvelope ==
    \A r \in Reqs : \A i \in 1..Len(responses[r]) :
        LET b == responses[r][i].body
        IN  /\ "success" \in DOMAIN b
            /\ b.success \in BOOLEAN
            /\ \/ responses[r][i].status \in {200, 422, 500}
               \/ "status_code" \in DOMAIN b
            /\ "timestamp" \in DOMAIN b
            /\ ~b.success =>
                   /\ "error" \in DOMAIN b
                   /\ b.error # None
                   /\ ~EmptyText(Get(b.error))

\* the calls of the image service r has made
ImageCalls(r) == SelectSeq(calls[r], LAMBDA c : c.svc = "image")

\* C16: for a post request the Image Adapter is called only if the image
\* was requested, at most once, never with an absent post text, and its
\* prompt is the post text returned to the caller.
C16_ImagePrompt ==
    \A r \in Reqs :
        IsPost(r) =>
            /\ Len(ImageCalls(r)) <= 1
            /\ ImageCalls(r) # <<>> => raw[r].image
            /\ \A i \in 1..Len(ImageCalls(r)) :
                   /\ ImageCalls(r)[i].arg.prompt # None
                   /\ Done(r) /\ Succeeded(r) =>
                          ImageCalls(r)[i].arg.prompt = Response(r).body.post

\* the completion calls r has made
CompletionCalls(r) == SelectSeq(calls[r], LAMBDA c : c.svc = "completion")

\* C17: the character limit resolved for a style is 1200 for Professional,
\* 800 for Friendly, 1250 for Long and 400 for Short, and 1000 for any other
\* value; a request that reaches the comment orchestrator has one of the
\* four styles, so its limit is never the default.
C17_StyleLimits ==
    /\ character_limit(Professional) = 1200
    /\ character_limit(Friendly) = 800
    /\ character_limit(Long) = 1250
    /\ character_limit(Short) = 400
    /\ \A s \in StyleInputs \ {Professional, Friendly, Long, Short} :
           character_limit(s) = 1000
    /\ \A r \in Reqs :
           IsComment(r) =>
               \A i \in 1..Len(CompletionCalls(r)) :
                   LET a == CompletionCalls(r)[i].arg
                   IN  /\ a.comment_style = raw[r].comment_style
                       /\ a.comment_style
                              \in {Professional, Friendly, Long, Short}
                       /\ style_limits(a.comment_style) # None
                       /\ a.character_limit
                              = Get(style_limits(a.comment_style))

C17_Witness ==
    \E r \in Reqs :
        /\ IsComment(r)
        /\ raw[r].comment_style = Short
        /\ CompletionCalls(r) # <<>>
        /\ CompletionCalls(r)[1].arg.character_limit = 400

\* the payload the completion gave r
OwnPayload(r) == Get(Get(frame[r].analysis_response).parsed)

\* each remote call of r is made with r's own user id and inputs
OwnCalls(r) ==
    \A i \in 1..Len(calls[r]) :
        LET c == calls[r][i]
        IN  /\ c.svc = "memory_search" => c.arg.user_id = raw[r].user_id
            /\ c.svc = "memory_add" =>
                   /\ c.arg.user_id = raw[r].user_id
                   /\ c.arg.data = ActivityOf(r)
            /\ c.svc = "completion" /\ IsComment(r) =>
                   c.arg.post_text = raw[r].post_text
            /\ c.svc = "completion" /\ IsPost(r) =>
                   c.arg.input_data = raw[r].input_context
            /\ c.svc = "image" /\ Generated(r) =>
                   c.arg.prompt = Some(truncate(OwnPayload(r).linkedin_post))

\* r's response is made of the answers r's own calls got
OwnResponse(r) ==
    LET b == Response(r).body
    IN  /\ Succeeded(r) <=> Generated(r)
        /\ Succeeded(r) /\ IsComment(r) =>
               /\ "comments" \in DOMAIN b
               /\ b.comments = Some(CommentsOf(OwnPayload(r)))
               /\ b.tokens_used = frame[r].total_tokens
        /\ Succeeded(r) /\ IsPost(r) =>
               /\ "post" \in DOMAIN b
               /\ b.post = Some(truncate(OwnPayload(r).linkedin_post))
               /\ b.tokens_used = frame[r].total_tokens
        /\ ~Succeeded(r) /\ Refused(r) /\ IsPost(r) =>
               Carries(Get(b.error),
                       Get(Get(frame[r].analysis_response).refusal))

\* the entries the backend held before any request
InitialEntries == UNION {{s[i] : i \in 1..Len(s)} : s \in InitialStores}

\* C19: with requests served concurrently, every remote call of a request
\* is made with its own user id and inputs, its response holds the content
\* its own completion call returned, and every entry written to the memory
\* is the activity of one request under that request's user id.
C19_RequestsIsolated ==
    /\ \A r \in Reqs : raw[r] # NoRequest => OwnCalls(r)
    /\ \A r \in Reqs : Done(r) => OwnResponse(r)
    /\ \A i \in 1..Len(memory) :
           \/ memory[i] \in InitialEntries
           \/ \E r \in Reqs :
                  /\ Generated(r)
                  /\ memory[i] = MemoryEntry(raw[r].user_id, ActivityOf(r))

C19_Witness ==
    \E r \in Reqs : \E q \in Reqs \ {r} :
        /\ IsComment(r) /\ Done(r) /\ Succeeded(r)
        /\ IsPost(q) /\ Done(q) /\ Succeeded(q)
        /\ raw[r].user_id # raw[q].user_id
        /\ \E i \in 1..Len(memory) : \E j \in (i + 1)..Len(memory) :
               /\ memory[i].user_id = raw[q].user_id
               /\ memory[j].user_id = raw[r].user_id
               /\ memory[i] \notin InitialEntries

====
